---- MODULE Spec2Model ----
(***************************************************************************)
(* juju-wait (helper/utils/juju_wait.py): poll `juju status` until the     *)
(* environment is in a steady state.  The model follows wait() statement   *)
(* by statement: one action per loop step (status fetch, readiness         *)
(* evaluation with debounce, sleep) and one for wait_cmd's exit code.      *)
(***************************************************************************)
EXTENDS Integers, Sequences, FiniteSets, TLC

VARIABLES
    pc,              \* "top" | "body" | "sleep" | "returned" | "raised" | "exited"
    now,             \* datetime.utcnow(), in seconds
    status,          \* wait(): status (the parsed JSON document of this cycle)
    ready,           \* wait(): ready
    ready_since,     \* wait(): ready_since, <<>> is None, <<t>> a timestamp
    prev_logs,       \* wait(): prev_logs, unit name -> log tail
    logs,            \* wait(): logs
    sniff,           \* per sniffed unit, what lines 236/239 logged: "idle" | "active"
    logging_reset,   \* wait(): logging_reset
    all_units,       \* wait(): all_units
    led,             \* wait(): [services, services_with_leader, checked]
    cmds,            \* external commands run in the current cycle, in order
    exc,             \* the exception wait() ended with, if any
    exit_code,       \* value the process exits with, <<>> while running
    hist,            \* history: verdicts and log tails of earlier cycles
    steady           \* environment: the status has settled for good

vars == <<pc, now, status, ready, ready_since, prev_logs, logs, sniff, logging_reset,
          all_units, led, cmds, exc, exit_code, hist, steady>>

----------------------------------------------------------------------------
(* Program constants *)

\* IDLE_CONFIRMATION = timedelta(seconds=15)
IDLE_CONFIRMATION == 15

\* time.sleep(4)
SLEEP == 4

\* raise JujuWaitException(1) for a legacy agent in error
LEGACY_ERROR_CODE == 1

----------------------------------------------------------------------------
(* Bounds of the model *)

\* the clock stops the run once it would pass MaxTime seconds
MaxTime == 24

\* seconds the external commands of one cycle may add to the 4 second sleep
Lags == {0, 11}

\* log tail lines a unit's log may end with
Tails == {"hook done", "hook running"}

None == <<>>

\* prev_logs.get(uname) of a unit with no entry
NoTail == "None"

----------------------------------------------------------------------------
(* Unit names.  A name is <service>/<number>; TLC has no string operations, *)
(* so splitting and ordering are tabulated over the names of the model.    *)

UnitNames == {"nrpe/0", "web/0", "web/1"}

\* uname.split('/', 1)[0]
ServiceOf(uname) ==
    CASE uname = "nrpe/0" -> "nrpe"
      [] uname = "web/0" -> "web"
      [] uname = "web/1" -> "web"

\* the names in the order sorted() gives strings
NameOrder == <<"nrpe/0", "web/0", "web/1">>

\* sorted(d.items()) over the keys in S
Sorted(S) == SelectSeq(NameOrder, LAMBDA u : u \in S)

----------------------------------------------------------------------------
(* The status documents `juju status --format=json` may return.            *)

\* unit.get('agent-version') of a unit without the field
NoVersion == "None"

Versions == {NoVersion, "1.22.0", "1.23.0", "2.0"}

\* LooseVersion(vstring).version: the components of a dotted version
LooseVersion(vstring) ==
    CASE vstring = "1.22.0" -> <<1, 22, 0>>
      [] vstring = "1.23.0" -> <<1, 23, 0>>
      [] vstring = "2.0" -> <<2, 0>>
      [] vstring = "1.23" -> <<1, 23>>

\* a unit or subordinate record; agent_status is "absent" when the record
\* has no 'agent-status' field, and its 'current' value otherwise
UnitRecords ==
    { r \in [agent_status : {"absent", "idle", "executing"},
             life : {"alive", "dying"},
             agent_state : {"started", "error", "pending"},
             agent_version : Versions] :
        IF r.agent_status = "absent"
        THEN /\ r.agent_version \in {"1.22.0", "1.23.0"}
             /\ r.agent_version = "1.23.0"
                   => r.life = "alive" /\ r.agent_state = "started"
             /\ r.life = "dying" => r.agent_state # "pending"
        ELSE /\ r.life = "alive" /\ r.agent_state = "started"
             /\ r.agent_status = "executing" => r.agent_version = "1.22.0"
             /\ r.agent_version # "1.23.0" }

Named(uname, r, subs) ==
    [name |-> uname, agent_status |-> r.agent_status, life |-> r.life,
     agent_state |-> r.agent_state, agent_version |-> r.agent_version,
     subordinates |-> subs]

\* the units of service web: none, web/0, web/0 with subordinate nrpe/0,
\* or web/0 and web/1
WebUnits ==
    {<<>>}
    \cup { <<Named("web/0", r, <<>>)>> : r \in UnitRecords }
    \cup { <<Named("web/0", r[1], <<Named("nrpe/0", r[2], <<>>)>>)>> :
             r \in UnitRecords \X UnitRecords }
    \cup { <<Named("web/0", r[1], <<>>), Named("web/1", r[2], <<>>)>> :
             r \in UnitRecords \X UnitRecords }

Lives == {"alive", "dying", "dead"}

Statuses ==
    {[services |-> <<>>]}
    \cup { [services |-> <<[name |-> "web", life |-> l, units |-> us]>>] :
             l \in Lives, us \in WebUnits }

\* value of `status` between cycles
NoStatus == [services |-> <<>>]

----------------------------------------------------------------------------
(* External commands *)

NoExc == [type |-> "none", arg |-> 0]

JujuWaitException(code) == [type |-> "JujuWaitException", arg |-> code]

\* json.loads() of text that is not JSON
ValueError == [type |-> "ValueError", arg |-> 0]

\* What subprocess.Popen/communicate can do with a command: fail to start
\* (OSError, errno n, 0 when errno is None), fail otherwise, or run to an
\* exit status n
ProcFailures ==
    { [kind |-> "OSError", n |-> 0], [kind |-> "OSError", n |-> 13],
      [kind |-> "Exception", n |-> 0], [kind |-> "exit", n |-> 2] }

ProcSuccess == [kind |-> "exit", n |-> 0]

\* run_or_die: the exception it raises for process result p, NoExc when it
\* returns the command's output
run_or_die(p) ==
    IF p.kind = "OSError"
    THEN JujuWaitException(IF p.n # 0 THEN p.n ELSE 41)
    ELSE IF p.kind = "Exception"
    THEN JujuWaitException(42)
    ELSE IF p.n # 0
    THEN JujuWaitException(IF p.n # 0 THEN p.n ELSE 43)
    ELSE NoExc

\* one entry of cmds: the command, the unit it ran on, what it printed and
\* the exception it ended with
Cmd(what, uname, out, e) == [cmd |-> what, unit |-> uname, out |-> out, exc |-> e]

\* outcomes of a command through run_or_die: [exc, out] for every process
\* result, the successful ones printing one of outs
Outcomes(outs) ==
    { [exc |-> run_or_die(p), out |-> ""] : p \in ProcFailures }
    \cup { [exc |-> run_or_die(ProcSuccess), out |-> o] : o \in outs }

\* reset_logging()
reset_logging == Outcomes({""})

\* get_log_tail(unit)
get_log_tail == Outcomes(Tails)

\* get_is_leader(unit): json.loads of what is-leader --format=json printed
IsLeaderOutputs == {"true", "false", "not json"}

get_is_leader ==
    { IF r.exc = NoExc /\ r.out = "not json" THEN [exc |-> ValueError, out |-> r.out]
      ELSE r : r \in Outcomes(IsLeaderOutputs) }

\* get_status(): the fetch either raises, or returns the parsed document
get_status ==
    { [exc |-> run_or_die(p), doc |-> NoStatus] : p \in ProcFailures }
    \cup { [exc |-> ValueError, doc |-> NoStatus] }
    \cup { [exc |-> NoExc, doc |-> s] : s \in Statuses }

----------------------------------------------------------------------------
(* wait(): the readiness evaluation of one cycle *)

Range(f) == { f[i] : i \in DOMAIN f }

RECURSIVE Concat(_)
Concat(ss) == IF ss = <<>> THEN <<>> ELSE Head(ss) \o Concat(Tail(ss))

\* lines 190-203: units and subordinates in the order the dicts are walked
FlattenUnit(unit) ==
    <<[name |-> unit.name, unit |-> unit, top |-> TRUE]>>
    \o [i \in 1..Len(unit.subordinates) |->
          [name |-> unit.subordinates[i].name, unit |-> unit.subordinates[i],
           top |-> FALSE]]

Flatten(st) ==
    Concat([i \in 1..Len(st.services) |->
              Concat([j \in 1..Len(st.services[i].units) |->
                        FlattenUnit(st.services[i].units[j])])])

\* the life of a service is not looked at
DyingServicesIgnored(st) == {}

\* a service that is dead is not counted
DyingServicesNotDead(st) ==
    { i \in 1..Len(st.services) : st.services[i].life = "dying" }

\* lines 173-176
DyingServices(st) ==
    { i \in 1..Len(st.services) : st.services[i].life \in {"dying", "dead"} }

\* line 192: all_units.add(uname), for the units of a service
AllUnits(st) == { e.name : e \in { x \in Range(Flatten(st)) : x.top } }

\* lines 194-195, 200-201: units and subordinates with 'agent-status'
AgentStatus(st) == { e \in Range(Flatten(st)) : e.unit.agent_status # "absent" }

\* lines 196-197, 202-203: units and subordinates scheduled for sniffing
ReadyUnits(st) == { e \in Range(Flatten(st)) : e.unit.agent_status = "absent" }

\* the agent-status of subordinates is not looked at
BusyAgentsTopLevel(st) ==
    { e.name : e \in { x \in AgentStatus(st) : x.top /\ x.unit.agent_status # "idle" } }

\* lines 205-210
BusyAgents(st) == { e.name : e \in { x \in AgentStatus(st) : x.unit.agent_status # "idle" } }

UnitNamed(st, uname) == (CHOOSE e \in Range(Flatten(st)) : e.name = uname).unit

\* d.get(k), and d[k] = v, of a dict
Get(d, k) == IF k \in DOMAIN d THEN d[k] ELSE NoTail

Put(d, k, v) == [x \in DOMAIN d \cup {k} |-> IF x = k THEN v ELSE d[x]]

EmptyDict == [x \in {} |-> NoTail]

\* logging_reset is not looked at
ResetLoggingEachTime(acc) ==
    { [acc EXCEPT !.logging_reset = (r.exc = NoExc),
                  !.cmds = Append(@, Cmd("set-environment", "", r.out, r.exc)),
                  !.exc = r.exc] : r \in reset_logging }

\* lines 231-233: the logging configuration is reset before the first log
\* tail of the run is fetched
ResetLoggingOnce(acc) ==
    IF acc.logging_reset THEN {acc}
    ELSE { [acc EXCEPT !.logging_reset = (r.exc = NoExc),
                       !.cmds = Append(@, Cmd("set-environment", "", r.out, r.exc)),
                       !.exc = r.exc] : r \in reset_logging }

\* a unit without a cached tail counts as idle
SniffLogNewIsIdle(acc, uname, prev) ==
    IF acc.exc # NoExc THEN {acc}
    ELSE { IF t.exc # NoExc
           THEN [acc EXCEPT !.cmds = Append(@, Cmd("tail", uname, t.out, t.exc)),
                            !.exc = t.exc]
           ELSE [acc EXCEPT !.cmds = Append(@, Cmd("tail", uname, t.out, t.exc)),
                            !.logs = Put(@, uname, t.out),
                            !.sniff = Put(@, uname,
                                          IF t.out = Get(prev, uname) \/ uname \notin DOMAIN prev
                                          THEN "idle" ELSE "active"),
                            !.ready = IF t.out = Get(prev, uname) \/ uname \notin DOMAIN prev
                                      THEN @ ELSE FALSE]
           : t \in get_log_tail }

\* lines 234-241: fetch the log tail and compare it with the previous cycle's
SniffLog(acc, uname, prev) ==
    IF acc.exc # NoExc THEN {acc}
    ELSE { IF t.exc # NoExc
           THEN [acc EXCEPT !.cmds = Append(@, Cmd("tail", uname, t.out, t.exc)),
                            !.exc = t.exc]
           ELSE [acc EXCEPT !.cmds = Append(@, Cmd("tail", uname, t.out, t.exc)),
                            !.logs = Put(@, uname, t.out),
                            !.sniff = Put(@, uname,
                                          IF t.out = Get(prev, uname)
                                          THEN "idle" ELSE "active"),
                            !.ready = IF t.out = Get(prev, uname) THEN @ ELSE FALSE]
           : t \in get_log_tail }

\* an agent in error only makes the cycle not ready
LegacyErrorNotRaised(acc) == [acc EXCEPT !.ready = FALSE]

\* lines 224-226: a legacy agent in error
LegacyError(acc) ==
    [acc EXCEPT !.ready = FALSE, !.exc = JujuWaitException(LEGACY_ERROR_CODE)]

\* line 230 is a plain else: a started unit is sniffed in a cycle that is
\* already not ready
SniffUnitAlways(acc, uname, unit, prev) ==
    IF unit.life \in {"dying", "dead"}
    THEN {[acc EXCEPT !.ready = FALSE]}
    ELSE IF unit.agent_state = "error"
    THEN {LegacyError(acc)}
    ELSE IF unit.agent_state # "started"
    THEN {[acc EXCEPT !.ready = FALSE]}
    ELSE UNION { SniffLog(a, uname, prev) : a \in ResetLoggingOnce(acc) }

\* lines 217-241: one unit without agent-status
SniffUnit(acc, uname, unit, prev) ==
    IF unit.life \in {"dying", "dead"}
    THEN {[acc EXCEPT !.ready = FALSE]}
    ELSE IF unit.agent_state = "error"
    THEN {LegacyError(acc)}
    ELSE IF unit.agent_state # "started"
    THEN {[acc EXCEPT !.ready = FALSE]}
    ELSE IF acc.ready
    THEN UNION { SniffLog(a, uname, prev) : a \in ResetLoggingOnce(acc) }
    ELSE {acc}

\* line 216: the loop over sorted(ready_units.items())
RECURSIVE SniffUnits(_, _, _, _)
SniffUnits(acc, unames, st, prev) ==
    IF unames = <<>> \/ acc.exc # NoExc THEN {acc}
    ELSE UNION { SniffUnits(a, Tail(unames), st, prev) :
                   a \in SniffUnit(acc, Head(unames), UnitNamed(st, Head(unames)), prev) }

\* LooseVersion(a) >= LooseVersion(b): the component lists compared as lists
RECURSIVE VersionGE(_, _)
VersionGE(a, b) ==
    IF b = <<>> THEN TRUE
    ELSE IF a = <<>> THEN FALSE
    ELSE IF Head(a) # Head(b) THEN Head(a) > Head(b)
    ELSE VersionGE(Tail(a), Tail(b))

\* only the first component is compared
LeaderVersionMajorOnly(version) ==
    Head(LooseVersion(version)) >= Head(LooseVersion("1.23"))

\* line 252: LooseVersion(version) >= LooseVersion('1.23')
HasLeaderVersion(version) ==
    VersionGE(LooseVersion(version), LooseVersion("1.23"))

\* a leader already found for the service is not remembered
AlreadyLedNever(acc, sname) == FALSE

\* line 251: sname not in services_with_leader, negated
AlreadyLed(acc, sname) == sname \in acc.services_with_leader

\* lines 249-255: one entry of agent_version
LeaderUnit(acc, uname, version) ==
    LET sname == ServiceOf(uname)
        seen == [acc EXCEPT !.services = @ \cup {sname}]
        lead == [seen EXCEPT !.services_with_leader = @ \cup {sname}]
    IN  IF AlreadyLed(acc, sname) \/ version = NoVersion
        THEN {seen}
        ELSE IF HasLeaderVersion(version)
        THEN {lead}
        ELSE { IF r.exc # NoExc
               THEN [seen EXCEPT !.cmds = Append(@, Cmd("is-leader", uname, r.out, r.exc)),
                                 !.exc = r.exc]
               ELSE IF r.out = "true"
               THEN [lead EXCEPT !.cmds = Append(@, Cmd("is-leader", uname, r.out, r.exc))]
               ELSE [seen EXCEPT !.cmds = Append(@, Cmd("is-leader", uname, r.out, r.exc))]
               : r \in get_is_leader }

\* line 248: the loop over agent_version.items()
RECURSIVE LeaderUnits(_, _)
LeaderUnits(acc, entries) ==
    IF entries = <<>> \/ acc.exc # NoExc THEN {acc}
    ELSE UNION { LeaderUnits(a, Tail(entries)) :
                   a \in LeaderUnit(acc, Head(entries).name,
                                    Head(entries).unit.agent_version) }

\* the check also runs in a cycle that is already not ready
LeadershipAlways(acc, st) ==
    IF acc.exc # NoExc THEN {acc}
    ELSE { IF a.exc # NoExc THEN a
           ELSE [a EXCEPT !.checked = TRUE,
                          !.ready = (a.services \subseteq a.services_with_leader)]
           : a \in LeaderUnits(acc, Flatten(st)) }

\* lines 245-259: every service needs a leader
Leadership(acc, st) ==
    IF acc.exc # NoExc \/ ~acc.ready THEN {acc}
    ELSE { IF a.exc # NoExc THEN a
           ELSE [a EXCEPT !.checked = TRUE,
                          !.ready = (a.services \subseteq a.services_with_leader)]
           : a \in LeaderUnits(acc, Flatten(st)) }

\* lines 170-259: every way the evaluation of status st can go
Evaluate(st, prev, was_reset) ==
    LET start == [ready |-> (DyingServices(st) = {}) /\ (BusyAgents(st) = {}),
                  logs |-> EmptyDict, sniff |-> EmptyDict,
                  logging_reset |-> was_reset, cmds |-> <<>>, exc |-> NoExc,
                  services |-> {}, services_with_leader |-> {}, checked |-> FALSE]
    IN  UNION { Leadership(a, st) :
                  a \in SniffUnits(start, Sorted({e.name : e \in ReadyUnits(st)}), st, prev) }

----------------------------------------------------------------------------
(* The poll loop *)

NoLeaders == [services |-> {}, services_with_leader |-> {}, checked |-> FALSE]

NoHistory ==
    [last_verdict |-> "none", first_ready |-> None, last_tails |-> EmptyDict,
     resets |-> 0, tailed |-> FALSE, still |-> 0, blocked |-> FALSE]

Init ==
    /\ pc = "top"
    /\ now = 0
    /\ status = NoStatus
    /\ ready = TRUE
    /\ ready_since = None
    /\ prev_logs = EmptyDict
    /\ logs = EmptyDict
    /\ sniff = EmptyDict
    /\ logging_reset = FALSE
    /\ all_units = {}
    /\ led = NoLeaders
    /\ cmds = <<>>
    /\ exc = NoExc
    /\ exit_code = None
    /\ hist = NoHistory
    /\ steady = FALSE

\* the window is not waited for
ConfirmedAtOnce(since, t) == since < t

\* the window counts as elapsed at exactly IDLE_CONFIRMATION
ConfirmedInclusive(since, t) == since + IDLE_CONFIRMATION <= t

\* line 269: the ready streak has lasted longer than IDLE_CONFIRMATION
Confirmed(since, t) == since + IDLE_CONFIRMATION < t

\* the else branch of line 274 is missing
DebounceKeepsSince(rdy, since, t) ==
    IF rdy
    THEN IF since = None
         THEN [ready_since |-> <<t>>, return |-> FALSE]
         ELSE [ready_since |-> since, return |-> Confirmed(since[1], t)]
    ELSE [ready_since |-> since, return |-> FALSE]

\* ready_since is set anew in every ready cycle
DebounceRestarts(rdy, since, t) ==
    IF rdy
    THEN [ready_since |-> <<t>>,
          return |-> since # None /\ Confirmed(since[1], t)]
    ELSE [ready_since |-> None, return |-> FALSE]

\* lines 261-275: ready_since after a cycle with verdict rdy at time t, and
\* whether wait() returns
Debounce(rdy, since, t) ==
    IF rdy
    THEN IF since = None
         THEN [ready_since |-> <<t>>, return |-> FALSE]
         ELSE [ready_since |-> since, return |-> Confirmed(since[1], t)]
    ELSE [ready_since |-> None, return |-> FALSE]

\* if logs: prev_logs = logs -- a cycle without log tails keeps the cache
CarryLogsUnlessEmpty(old, new) == IF new = EmptyDict THEN old ELSE new

\* prev_logs.update(logs): entries of units not sniffed are kept
CarryLogsMerged(old, new) ==
    [x \in DOMAIN old \cup DOMAIN new |-> IF x \in DOMAIN new THEN new[x] ELSE old[x]]

\* line 277: prev_logs = logs
CarryLogs(old, new) == new

\* lines 169-170: status = get_status(); ready = True, get_status() ending
\* in one of results
Fetch(results) ==
    /\ pc = "top"
    /\ \E r \in results :
         /\ cmds' = <<Cmd("status", "", "", r.exc)>>
         /\ IF r.exc # NoExc
            THEN /\ pc' = "raised"
                 /\ exc' = r.exc
                 /\ UNCHANGED <<status, ready>>
            ELSE /\ pc' = "body"
                 /\ status' = r.doc
                 /\ ready' = TRUE
                 /\ exc' = NoExc
    /\ UNCHANGED <<now, ready_since, prev_logs, logs, sniff, logging_reset,
                   all_units, led, exit_code, hist, steady>>

GetStatus == Fetch(get_status)

\* lines 172-277: evaluate the status, then debounce the verdict
EvaluateStatus ==
    /\ pc = "body"
    /\ \E a \in Evaluate(status, prev_logs, logging_reset) :
         LET d == Debounce(a.ready, ready_since, now) IN
         /\ ready' = a.ready
         /\ logs' = a.logs
         /\ sniff' = a.sniff
         /\ logging_reset' = a.logging_reset
         /\ all_units' = AllUnits(status)
         /\ led' = [services |-> a.services,
                    services_with_leader |-> a.services_with_leader,
                    checked |-> a.checked]
         /\ cmds' = cmds \o a.cmds
         /\ exc' = a.exc
         /\ IF a.exc # NoExc
            THEN /\ pc' = "raised"
                 /\ UNCHANGED <<ready_since, prev_logs>>
            ELSE IF d.return
            THEN /\ pc' = "returned"
                 /\ UNCHANGED <<ready_since, prev_logs>>
            ELSE /\ pc' = "sleep"
                 /\ ready_since' = d.ready_since
                 /\ prev_logs' = CarryLogs(prev_logs, a.logs)
    /\ UNCHANGED <<now, status, exit_code, hist, steady>>

\* the log tails the commands of a cycle returned
FetchedTails(cs) ==
    LET ok == { i \in 1..Len(cs) : cs[i].cmd = "tail" /\ cs[i].exc = NoExc }
    IN  [u \in { cs[i].unit : i \in ok } |-> cs[CHOOSE i \in ok : cs[i].unit = u].out]

\* the commands named what among cs
Issued(cs, what) == { i \in 1..Len(cs) : cs[i].cmd = what }

\* the units without agent-status of the cycle's status
LegacyNames == { e.name : e \in ReadyUnits(status) }

\* a cycle in which nothing but a missing log tail of the previous cycle, or
\* a missing leader, stands against readiness: no service dying, no agent
\* busy, every unit without agent-status alive and started, and no fetched
\* log tail different from the one fetched the cycle before
QuietCycle ==
    /\ DyingServices(status) = {}
    /\ BusyAgents(status) = {}
    /\ \A e \in ReadyUnits(status) :
          e.unit.life = "alive" /\ e.unit.agent_state = "started"
    /\ \A i \in Issued(cmds, "tail") :
          cmds[i].unit \in DOMAIN hist.last_tails
             => cmds[i].out = hist.last_tails[cmds[i].unit]

\* place of a unit name in sorted order
SortIndex(uname) == CHOOSE p \in 1..Len(NameOrder) : NameOrder[p] = uname

\* the first n of the names S in sorted order
FirstSorted(S, n) ==
    { u \in S : Cardinality({ v \in S : SortIndex(v) < SortIndex(u) }) < n }

\* the quiet cycles counted before this one
QuietBefore == IF hist.last_tails = EmptyDict THEN 0 ELSE hist.still

\* the cycle continues a run of quiet cycles that began with no log tail
\* cached and cached one more of the cycle's units without agent-status,
\* in sorted order, with each cycle
QuietRun ==
    /\ QuietCycle
    /\ LegacyNames # {}
    /\ \/ hist.last_tails = EmptyDict
       \/ /\ hist.still > 0
          /\ DOMAIN hist.last_tails = FirstSorted(LegacyNames, hist.still)

\* the number of quiet cycles in such a run, this one included; the run is
\* counted until every unit without agent-status has been cached, and is
\* over with the cycle after that
StillCycles ==
    IF QuietRun /\ QuietBefore < Cardinality(LegacyNames) THEN QuietBefore + 1 ELSE 0

\* the status of the cycle has a service that is not alive, or a unit or
\* subordinate whose agent-status is not idle
BlockedCycle ==
    \/ \E i \in 1..Len(status.services) : status.services[i].life # "alive"
    \/ \E e \in Range(Flatten(status)) : e.unit.agent_status \notin {"absent", "idle"}

\* line 278: time.sleep(4); the clock also advances by the time the cycle's
\* commands took.  The locals the next cycle sets anew are dropped here.
\* The clock is bounded by MaxTime, and by two more confirmation windows
\* once the environment has settled.
Sleep ==
    /\ pc = "sleep"
    /\ \E lag \in Lags :
         /\ now + SLEEP + lag <= MaxTime + (IF steady THEN 2 * IDLE_CONFIRMATION ELSE 0)
         /\ now' = now + SLEEP + lag
    /\ pc' = "top"
    /\ hist' = [last_verdict |-> IF ready THEN "ready" ELSE "not ready",
                first_ready |-> IF ~ready THEN None
                                ELSE IF hist.last_verdict = "ready"
                                THEN hist.first_ready ELSE <<now>>,
                last_tails |-> FetchedTails(cmds),
                resets |-> hist.resets + Cardinality(Issued(cmds, "set-environment")),
                tailed |-> hist.tailed \/ Issued(cmds, "tail") # {},
                still |-> StillCycles,
                blocked |-> BlockedCycle]
    /\ status' = NoStatus
    /\ logs' = EmptyDict
    /\ sniff' = EmptyDict
    /\ all_units' = {}
    /\ led' = NoLeaders
    /\ cmds' = <<>>
    /\ UNCHANGED <<ready, ready_since, prev_logs, logging_reset, exc, exit_code, steady>>

\* the exception is caught and 0 returned all the same
wait_cmd_zero(e) == 0

\* wait_cmd, lines 140-144, and sys.exit(wait_cmd()): the exit code when
\* wait() ended with exception e (NoExc: it returned).  An exception that is
\* not a JujuWaitException leaves the interpreter, which exits with 1
wait_cmd(e) ==
    IF e = NoExc THEN 0
    ELSE IF e.type = "JujuWaitException" THEN e.arg
    ELSE 1

WaitCmd ==
    /\ pc \in {"returned", "raised"}
    /\ pc' = "exited"
    /\ exit_code' = <<wait_cmd(IF pc = "returned" THEN NoExc ELSE exc)>>
    /\ UNCHANGED <<now, status, ready, ready_since, prev_logs, logs, sniff,
                   logging_reset, all_units, led, cmds, exc, hist, steady>>

Next == GetStatus \/ EvaluateStatus \/ Sleep \/ WaitCmd

Spec == Init /\ [][Next]_vars

----------------------------------------------------------------------------
(* The loop in an environment that settles: from some cycle on every       *)
(* status fetch succeeds with a status that is ready as it stands.         *)

\* all services alive, every unit and subordinate idle, every agent-version
\* at least 1.23
SteadyStatuses ==
    { s \in Statuses :
        /\ \A i \in 1..Len(s.services) : s.services[i].life = "alive"
        /\ \A e \in Range(Flatten(s)) :
              e.unit.agent_status = "idle" /\ e.unit.agent_version = "2.0" }

Settle ==
    /\ pc = "top"
    /\ ~steady
    /\ steady' = TRUE
    /\ UNCHANGED <<pc, now, status, ready, ready_since, prev_logs, logs, sniff,
                   logging_reset, all_units, led, cmds, exc, exit_code, hist>>

\* before it settles, the environment of this specification has one unit
\* at most
UnsettledResults ==
    { r \in get_status : Len(Flatten(r.doc)) <= 1 }

SettlingStatus ==
    Fetch(IF steady
          THEN { [exc |-> NoExc, doc |-> s] : s \in SteadyStatuses }
          ELSE UnsettledResults)

LiveNext == SettlingStatus \/ EvaluateStatus \/ Sleep \/ WaitCmd \/ Settle

\* wait() is one thread and every call in it returns: each step that can be
\* taken is taken
LiveSpec ==
    /\ Init
    /\ [][LiveNext]_vars
    /\ WF_vars(SettlingStatus)
    /\ WF_vars(EvaluateStatus)
    /\ WF_vars(Sleep)
    /\ WF_vars(WaitCmd)

----------------------------------------------------------------------------
(* Vocabulary of the properties *)

\* the status of the current cycle was fetched and evaluated
Evaluated ==
    /\ pc \in {"sleep", "returned", "raised", "exited"}
    /\ Len(cmds) >= 1
    /\ cmds[1].exc = NoExc

\* the evaluation of the current cycle ran to its verdict
CycleDone == pc \in {"sleep", "returned"}

Units == Range(Flatten(status))

ServiceLives == { status.services[i].life : i \in 1..Len(status.services) }

\* is-leader queries of the current cycle
Queries == { i \in 1..Len(cmds) : cmds[i].cmd = "is-leader" }

\* unit e gives a leader signal: its version is 1.23 or later, or it is an
\* earlier version and an is-leader query on it returned true
LeaderSignal(e) ==
    \/ e.unit.agent_version \in {"1.23.0", "2.0"}
    \/ /\ e.unit.agent_version = "1.22.0"
       /\ \E i \in Queries :
            cmds[i].unit = e.name /\ cmds[i].exc = NoExc /\ cmds[i].out = "true"

----------------------------------------------------------------------------
(* Debounce *)

\* C1: wait() returns only in a ready cycle, with ready_since set in an
\* earlier cycle, every cycle since then ready, and at least
\* IDLE_CONFIRMATION seconds gone since ready_since.
ReturnOnlyAfterDebounce ==
    pc = "returned" =>
        /\ ready
        /\ ready_since # None
        /\ ready_since[1] < now
        /\ hist.last_verdict = "ready"
        /\ hist.first_ready = ready_since
        /\ now - ready_since[1] >= IDLE_CONFIRMATION

\* wait() returned 16 seconds after the first ready cycle (cycles 4 s apart)
ReturnedAfterDebounce ==
    pc = "returned" /\ ready_since # None /\ now = ready_since[1] + 16

\* C2: a not-ready cycle ends with ready_since unset; at the start of a
\* cycle ready_since is set iff the cycle before was ready, and is then the
\* time of the first cycle of the current unbroken run of ready cycles.
ReadySinceTracksStreak ==
    /\ (pc = "sleep" /\ ~ready) => ready_since = None
    /\ pc \in {"top", "body"} =>
         /\ (ready_since # None) <=> (hist.last_verdict = "ready")
         /\ ready_since = hist.first_ready

\* a not-ready cycle right after a ready one: ready_since was set, and is
\* unset now
StreakBroken ==
    pc = "sleep" /\ ~ready /\ hist.last_verdict = "ready" /\ ready_since = None

----------------------------------------------------------------------------
(* Fatal errors and the exit code *)

LegacyInError ==
    { e \in Units : e.unit.agent_status = "absent" /\ e.unit.agent_state = "error" }

\* C3 as stated: a cycle whose status has a legacy unit or subordinate with
\* agent-state error ends wait() with JujuWaitException(1), exit code 1,
\* whatever else the status holds.
LegacyErrorAlwaysExitsOne ==
    (Evaluated /\ LegacyInError # {}) =>
        /\ pc \in {"raised", "exited"}
        /\ exc = JujuWaitException(1)
        /\ pc = "exited" => exit_code = <<1>>

\* C3 amended: a legacy unit or subordinate in error that is not dying ends
\* wait() in that cycle with a JujuWaitException, whatever ready_since is;
\* its code is 1 unless a command run earlier in the cycle (the logging
\* reset, the log tail of a unit sorted before it) failed, and then it is
\* that command's.
LiveLegacyErrorIsFatal ==
    (Evaluated /\ \E e \in LegacyInError : e.unit.life \notin {"dying", "dead"}) =>
        /\ pc \in {"raised", "exited"}
        /\ exc.type = "JujuWaitException"
        /\ pc = "exited" => exit_code = <<exc.arg>>
        /\ IF \A i \in 1..Len(cmds) : cmds[i].exc = NoExc
           THEN exc.arg = LEGACY_ERROR_CODE
           ELSE /\ cmds[Len(cmds)].cmd \in {"set-environment", "tail"}
                /\ exc = cmds[Len(cmds)].exc

\* a legacy subordinate in error ended a run that had been ready, while
\* another unit was idle
LegacyErrorExited ==
    /\ pc = "exited"
    /\ exit_code = <<1>>
    /\ ready_since # None
    /\ \E e \in LegacyInError : ~e.top /\ e.unit.life = "alive"
    /\ \E e \in Units : e.unit.agent_status = "idle"

\* C4: the exit code is 0 iff wait() returned, which it does only with the
\* debounce confirmed; a JujuWaitException exits with the non-zero code it
\* carries.
ExitCodeZeroIffConfirmed ==
    /\ \A p \in ProcFailures : run_or_die(p).arg # 0
    /\ pc = "exited" =>
         /\ (exit_code = <<0>>) <=> (exc = NoExc)
         /\ exc = NoExc =>
              /\ ready /\ ready_since # None
              /\ now - ready_since[1] >= IDLE_CONFIRMATION
         /\ exc.type = "JujuWaitException" =>
              exit_code = <<exc.arg>> /\ exc.arg # 0

\* the process exited with the code of a command that could not be started
ExitedWithCommandCode ==
    pc = "exited" /\ exit_code = <<13>> /\ exc = JujuWaitException(13)

\* C7 as stated: a failed status fetch (not started, non-zero exit,
\* unparseable output) ends wait() with a JujuWaitException whose code is the
\* exit code, without a second fetch.
StatusFetchFailureIsFatalError ==
    (pc \in {"raised", "exited"} /\ cmds[1].exc # NoExc) =>
        /\ Len(cmds) = 1
        /\ exc.type = "JujuWaitException"
        /\ exc.arg # 0
        /\ pc = "exited" => exit_code = <<exc.arg>>

----------------------------------------------------------------------------
(* The readiness verdict *)

\* C5: a status with a dying or dead service gives a not-ready verdict: the
\* cycle does not return, and ready_since is unset after it.
DyingServiceNotReady ==
    (Evaluated /\ ServiceLives \cap {"dying", "dead"} # {}) =>
        /\ ~ready
        /\ pc # "returned"
        /\ exit_code # <<0>>
        /\ pc = "sleep" => ready_since = None

\* a dead service broke a run of ready cycles although every unit is idle
DeadServiceBrokeStreak ==
    /\ pc = "sleep"
    /\ "dead" \in ServiceLives
    /\ Units # {}
    /\ \A e \in Units : e.unit.agent_status = "idle" /\ e.unit.agent_version = "2.0"
    /\ hist.last_verdict = "ready"
    /\ ready_since = None

\* C6: a unit or subordinate with agent-status current other than idle
\* makes the verdict not ready; when every service is alive and every unit
\* and subordinate has agent-status idle, the leadership check is reached
\* and the verdict is ready iff every service has a unit with a leader
\* signal.
BusyBlocksIdleDoesNot ==
    /\ (Evaluated /\ \E e \in Units : e.unit.agent_status \notin {"absent", "idle"}) =>
         /\ ~ready
         /\ pc # "returned"
         /\ pc = "sleep" => ready_since = None
    /\ (CycleDone /\ ServiceLives \subseteq {"alive"}
          /\ \A e \in Units : e.unit.agent_status = "idle") =>
         /\ led.checked
         /\ ready <=> \A e \in Units :
                        \E f \in Units :
                          ServiceOf(f.name) = ServiceOf(e.name) /\ LeaderSignal(f)

\* a busy subordinate under an idle unit broke a run of ready cycles
BusySubordinateBrokeStreak ==
    /\ pc = "sleep"
    /\ \E e \in Units : ~e.top /\ e.unit.agent_status = "executing"
    /\ \E e \in Units : e.top /\ e.unit.agent_status = "idle"
    /\ hist.last_verdict = "ready"
    /\ ~ready

\* C8: a log tail equal to the one the previous cycle fetched for the unit
\* classifies the unit idle; a tail that differs, or a unit with no tail
\* fetched in the previous cycle, classifies it active and makes the cycle
\* not ready.  The cache a cycle starts with is what the previous cycle
\* fetched.
LogSniffIdempotence ==
    /\ pc \in {"top", "body"} => prev_logs = hist.last_tails
    /\ \A i \in 1..Len(cmds) :
         (cmds[i].cmd = "tail" /\ cmds[i].exc = NoExc) =>
            LET u == cmds[i].unit IN
            /\ u \in DOMAIN sniff
            /\ IF u \in DOMAIN hist.last_tails /\ hist.last_tails[u] = cmds[i].out
               THEN sniff[u] = "idle"
               ELSE sniff[u] = "active" /\ ~ready /\ pc # "returned"

\* two units sniffed in a cycle, both with the tail of the cycle before
TwoUnitsIdleByLog ==
    /\ pc = "sleep"
    /\ DOMAIN sniff = {"web/0", "web/1"}
    /\ \A u \in DOMAIN sniff : sniff[u] = "idle"

\* C9: when the leadership check has run, a service has a leader exactly
\* when one of its units gives a leader signal, and the verdict is ready iff
\* every service has one; a query is issued only for a unit with a version
\* below 1.23 (never for 1.23.0), and a service whose units are all at 1.22.0
\* got a query.
LeaderRule ==
    /\ \A i \in Queries :
         \E e \in Units : e.name = cmds[i].unit /\ e.unit.agent_version = "1.22.0"
    /\ (CycleDone /\ led.checked) =>
         /\ led.services = { ServiceOf(e.name) : e \in Units }
         /\ \A s \in led.services :
              /\ s \in led.services_with_leader
                   <=> \E e \in Units : ServiceOf(e.name) = s /\ LeaderSignal(e)
              /\ (\A e \in Units : ServiceOf(e.name) = s => e.unit.agent_version = "1.22.0")
                   => \E i \in Queries : ServiceOf(cmds[i].unit) = s
         /\ ready <=> led.services \subseteq led.services_with_leader

\* web is led by a 1.22.0 unit whose query returned true, nrpe by a 1.23.0
\* unit without a query
LedByQueryAndByVersion ==
    /\ CycleDone /\ led.checked /\ ready
    /\ \E i \in Queries : cmds[i].unit = "web/0" /\ cmds[i].out = "true"
    /\ \E e \in Units : e.name = "nrpe/0" /\ e.unit.agent_version = "1.23.0"
    /\ \A i \in Queries : cmds[i].unit # "nrpe/0"

----------------------------------------------------------------------------
(* Liveness *)

\* C10: once every status fetch succeeds with a status that is ready as it
\* stands, wait() returns and the process exits with code 0.
SettledExitsZero == steady ~> (pc = "exited" /\ exit_code = <<0>>)

\* the environment settled and the process exited with 0
SettledAndExitedZero == steady /\ pc = "exited" /\ exit_code = <<0>>

----------------------------------------------------------------------------
(* Log sniffing *)

\* C11: the logging configuration is reset at most once in a run, before
\* the first log tail fetch of the run, and only on the way to a log tail
\* fetch: every fetch has the reset before it, and a reset that succeeded is
\* followed at once by a fetch.
ResetOnceBeforeFirstTail ==
    LET resets == Issued(cmds, "set-environment")
        tails == Issued(cmds, "tail")
    IN  /\ hist.resets + Cardinality(resets) <= 1
        /\ hist.tailed => hist.resets = 1
        /\ \A j \in resets :
             /\ ~hist.tailed
             /\ \A i \in tails : j < i
             /\ IF cmds[j].exc = NoExc
                THEN j < Len(cmds) /\ cmds[j + 1].cmd = "tail"
                ELSE j = Len(cmds) /\ pc \in {"raised", "exited"}
        /\ tails # {} =>
             \/ hist.resets = 1
             \/ \E j \in resets : cmds[j].exc = NoExc
        /\ logging_reset <=>
             \/ hist.resets = 1
             \/ \E j \in resets : cmds[j].exc = NoExc

\* the second cycle with log tails fetched, two of them, and no second reset
TailsFetchedAfterEarlierReset ==
    /\ pc = "sleep"
    /\ hist.resets = 1
    /\ Cardinality(Issued(cmds, "tail")) = 2
    /\ Issued(cmds, "set-environment") = {}

----------------------------------------------------------------------------
(* Debounce at the boundary *)

\* a ready cycle that began with ready_since set
ReadyWithSinceSet == CycleDone /\ ready /\ hist.last_verdict = "ready"

\* C12 as stated: in a ready cycle that began with ready_since set, wait()
\* returns iff now >= ready_since + IDLE_CONFIRMATION, and otherwise sleeps
\* with ready_since unchanged.
ReturnsAtWindow ==
    ReadyWithSinceSet =>
        /\ ready_since = hist.first_ready
        /\ pc = "returned" <=> now >= ready_since[1] + IDLE_CONFIRMATION

\* C12 amended: wait() returns iff now > ready_since + IDLE_CONFIRMATION;
\* at now = ready_since + IDLE_CONFIRMATION, and before, it sleeps and polls
\* again with ready_since unchanged.
ReturnsPastWindow ==
    ReadyWithSinceSet =>
        /\ ready_since = hist.first_ready
        /\ pc = "returned" <=> now > ready_since[1] + IDLE_CONFIRMATION
        /\ pc = "sleep" <=> now <= ready_since[1] + IDLE_CONFIRMATION

\* a ready cycle exactly IDLE_CONFIRMATION after ready_since: wait() sleeps
PendingAtWindow ==
    /\ ReadyWithSinceSet
    /\ now = ready_since[1] + IDLE_CONFIRMATION
    /\ pc = "sleep"

----------------------------------------------------------------------------
(* all_units and the log tail cache *)

\* C13 as stated: all_units is the set of the names of every unit and every
\* subordinate of the cycle's status.
AllUnitsHasSubordinates ==
    CycleDone => all_units = { e.name : e \in Units }

\* C14: the cache a cycle leaves holds exactly the units whose log tail the
\* cycle fetched, each with that tail, whether the unit was found idle or
\* active; the next cycle starts with it.
CacheIsLastFetch ==
    /\ pc = "sleep" =>
         /\ DOMAIN prev_logs = { cmds[i].unit : i \in Issued(cmds, "tail") }
         /\ DOMAIN prev_logs = DOMAIN sniff
         /\ \A i \in Issued(cmds, "tail") : prev_logs[cmds[i].unit] = cmds[i].out
    /\ pc \in {"top", "body"} => prev_logs = hist.last_tails

\* both units were cached; this cycle found web/0 active with a new tail and
\* did not fetch web/1, which has dropped out of the cache
UnitDroppedFromCache ==
    /\ pc = "sleep"
    /\ DOMAIN hist.last_tails = {"web/0", "web/1"}
    /\ DOMAIN prev_logs = {"web/0"}
    /\ sniff["web/0"] = "active"
    /\ prev_logs["web/0"] # hist.last_tails["web/0"]

----------------------------------------------------------------------------
(* When and for whom the leadership check runs *)

\* the dying-service, agent-status and legacy-unit steps left the verdict ready
ReadyBeforeLeadership ==
    /\ DyingServices(status) = {}
    /\ BusyAgents(status) = {}
    /\ \A e \in ReadyUnits(status) :
         /\ e.unit.life = "alive" /\ e.unit.agent_state = "started"
         /\ e.name \in DOMAIN sniff /\ sniff[e.name] = "idle"

\* services of the cycle's status none of whose units gives a leader signal
Leaderless ==
    { ServiceOf(e.name) : e \in Units }
       \ { ServiceOf(e.name) : e \in { u \in Units : LeaderSignal(u) } }

\* C15: is-leader queries are issued, and the leadership check runs, only in
\* a cycle that is still ready after the dying-service, agent-status and
\* legacy-unit steps; when the check has run and some service has no unit
\* giving a leader signal, the verdict is not ready, nothing is raised and
\* the loop sleeps; an exception after a query is that of the query itself.
LeadershipOnlyWhenReady ==
    /\ (Evaluated /\ (Queries # {} \/ led.checked)) => ReadyBeforeLeadership
    /\ (CycleDone /\ ReadyBeforeLeadership) => led.checked
    /\ (CycleDone /\ led.checked /\ Leaderless # {}) =>
         ~ready /\ pc = "sleep" /\ exc = NoExc
    /\ (pc \in {"raised", "exited"} /\ exc # NoExc /\ Queries # {}) =>
         /\ cmds[Len(cmds)].cmd = "is-leader"
         /\ cmds[Len(cmds)].exc = exc

\* the check ran: web/0 answered false, the subordinate's service nrpe is
\* led by version, and the cycle sleeps not ready
LeaderlessServiceSleeps ==
    /\ pc = "sleep" /\ led.checked /\ ~ready /\ exc = NoExc
    /\ Leaderless = {"web"}
    /\ "nrpe" \in led.services_with_leader
    /\ \E i \in Queries : cmds[i].unit = "web/0" /\ cmds[i].out = "false"

\* position of the unit named uname in the order leadership walks the units
WalkIndex(uname) ==
    CHOOSE p \in 1..Len(Flatten(status)) : Flatten(status)[p].name = uname

\* C16: a query is issued only for a unit whose agent-version is present and
\* below 1.23 and only while no unit of its service walked before it gave a
\* leader signal; queries follow the walk, one per unit at most, and no
\* query for a service follows a query of that service that returned true.
LeaderShortCircuit ==
    LET walk == Flatten(status) IN
    /\ \A i \in Queries :
         LET p == WalkIndex(cmds[i].unit) IN
         /\ \E q \in 1..Len(walk) : walk[q].name = cmds[i].unit
         /\ walk[p].unit.agent_version # NoVersion
         /\ walk[p].unit.agent_version \notin {"1.23.0", "2.0"}
         /\ \A q \in 1..(p - 1) :
              ServiceOf(walk[q].name) = ServiceOf(walk[p].name)
                 => ~LeaderSignal(walk[q])
    /\ \A i, j \in Queries :
         i < j =>
           /\ WalkIndex(cmds[i].unit) < WalkIndex(cmds[j].unit)
           /\ (cmds[i].exc = NoExc /\ cmds[i].out = "true")
                 => ServiceOf(cmds[i].unit) # ServiceOf(cmds[j].unit)

\* web/0 and web/1 are both at 1.22.0; web/0 answered true and web/1 was
\* not asked
SecondUnitNotQueried ==
    /\ CycleDone /\ led.checked
    /\ \E e \in Units : e.name = "web/1" /\ e.unit.agent_version = "1.22.0"
    /\ \E i \in Queries : cmds[i].unit = "web/0" /\ cmds[i].out = "true"
    /\ \A i \in Queries : cmds[i].unit # "web/1"

----------------------------------------------------------------------------
(* What ends the loop *)

\* every external command of the cycle so far was launched and exited zero
CommandsSucceeded ==
    \A i \in 1..Len(cmds) : cmds[i].exc.type # "JujuWaitException"

\* a transient condition holds in the evaluated status
Transient ==
    \/ DyingServices(status) # {}
    \/ BusyAgents(status) # {}
    \/ \E e \in ReadyUnits(status) :
         e.unit.life # "alive" \/ e.unit.agent_state # "started"
    \/ \E u \in DOMAIN sniff : sniff[u] = "active"
    \/ led.checked /\ Leaderless # {}

\* C17 as stated: a cycle in which every external command succeeds and no
\* legacy unit is in error ends in the sleep or in the successful return,
\* and in the sleep, not ready, when a transient condition holds; wait()
\* ends with an exception only when a command could not be launched or
\* exited non-zero, or a legacy unit reports error.
OnlyCommandsAndLegacyErrorsEndLoop ==
    /\ (pc \in {"sleep", "returned", "raised", "exited"}
          /\ CommandsSucceeded
          /\ (cmds[1].exc = NoExc => LegacyInError = {})) =>
         /\ pc \in {"sleep", "returned"} \/ (pc = "exited" /\ exit_code = <<0>>)
         /\ (CycleDone /\ Transient) => ~ready /\ pc = "sleep"
    /\ (pc \in {"raised", "exited"} /\ exc # NoExc) =>
         /\ exc.type = "JujuWaitException"
         /\ \/ cmds[Len(cmds)].exc = exc
            \/ cmds[1].exc = NoExc /\ LegacyInError # {}
                  /\ exc = JujuWaitException(LEGACY_ERROR_CODE)

----------------------------------------------------------------------------
(* Legacy units and the ready verdict *)

\* C18: in a cycle whose verdict is ready every legacy unit and subordinate
\* of the status is alive and started, had its log tail fetched in this
\* cycle and in the cycle before, and the two tails are equal; so with a
\* legacy unit in the status the first cycle of a run is not ready, nor is
\* the cycle after one that did not fetch the unit's tail.
ReadyNeedsTwoEqualTails ==
    CycleDone =>
        /\ ready =>
             \A e \in ReadyUnits(status) :
                /\ e.unit.life = "alive" /\ e.unit.agent_state = "started"
                /\ e.name \in DOMAIN hist.last_tails
                /\ \E i \in Issued(cmds, "tail") :
                     /\ cmds[i].unit = e.name /\ cmds[i].exc = NoExc
                     /\ cmds[i].out = hist.last_tails[e.name]
        /\ (\E e \in ReadyUnits(status) : e.name \notin DOMAIN hist.last_tails) => ~ready
        /\ (hist.last_verdict = "none" /\ ReadyUnits(status) # {}) => ~ready

\* wait() returned with a legacy unit and a legacy subordinate in the status
ReturnedWithLegacyUnits ==
    /\ pc = "returned" /\ ready
    /\ LegacyNames = {"nrpe/0", "web/0"}
    /\ DOMAIN hist.last_tails = LegacyNames

----------------------------------------------------------------------------
(* Sniffing stops at the first active unit *)

ActiveUnits == { u \in DOMAIN sniff : sniff[u] = "active" }

\* C19: log tails are fetched in sorted name order and only while the cycle
\* is still ready: every legacy unit sorted before a fetched one is alive,
\* started and was found idle, at most one unit per cycle is found active,
\* and it is the last one fetched and cached.  From an empty cache, with k
\* started legacy units whose tails do not change and nothing else blocking,
\* cycle c <= k fetches c tails, finds the c-th unit active and is not
\* ready; cycle k + 1 finds all k idle and is ready once every service has
\* a leader.
SniffingStopsAtFirstActive ==
    LET tails == Issued(cmds, "tail") IN
    /\ \A i, j \in tails : i < j => SortIndex(cmds[i].unit) < SortIndex(cmds[j].unit)
    /\ Cardinality(ActiveUnits) <= 1
    /\ \A i \in tails :
         /\ DyingServices(status) = {} /\ BusyAgents(status) = {}
         /\ \A e \in ReadyUnits(status) :
              SortIndex(e.name) < SortIndex(cmds[i].unit) =>
                 /\ e.unit.life = "alive" /\ e.unit.agent_state = "started"
                 /\ e.name \in DOMAIN sniff /\ sniff[e.name] = "idle"
         /\ (cmds[i].unit \in ActiveUnits) =>
              /\ \A j \in tails : j <= i
              /\ ~led.checked /\ Queries = {}
              /\ \A u \in DOMAIN logs : SortIndex(u) <= SortIndex(cmds[i].unit)
    /\ (CycleDone /\ QuietRun) =>
         IF QuietBefore < Cardinality(LegacyNames)
         THEN /\ ~ready /\ pc = "sleep"
              /\ Cardinality(tails) = QuietBefore + 1
              /\ Cardinality(ActiveUnits) = 1
              /\ DOMAIN prev_logs = DOMAIN sniff
         ELSE /\ ActiveUnits = {}
              /\ DOMAIN sniff = LegacyNames
              /\ led.checked
              /\ ready <=> Leaderless = {}

\* two started legacy units: the third quiet cycle is the first ready one
FirstReadyAfterTwoUnits ==
    /\ pc = "sleep" /\ ready
    /\ Cardinality(LegacyNames) = 2
    /\ QuietRun /\ QuietBefore = 2
    /\ hist.last_verdict = "not ready"
    /\ ready_since = <<now>>

----------------------------------------------------------------------------
(* Cycles blocked before sniffing *)

\* C20: a cycle whose status has a dying or dead service or a busy agent
\* runs no external command but the status fetch: no logging reset, no log
\* tail, no is-leader query; it leaves an empty cache, and the next cycle
\* starts with an empty cache.
BlockedCycleOnlyFetchesStatus ==
    /\ (Evaluated /\ BlockedCycle) =>
         /\ Len(cmds) = 1 /\ cmds[1].cmd = "status"
         /\ logs = EmptyDict /\ sniff = EmptyDict
         /\ ~led.checked
         /\ pc = "sleep" => prev_logs = EmptyDict
    /\ (pc \in {"top", "body"} /\ hist.blocked) => prev_logs = EmptyDict

\* the cycle before fetched log tails; this one has a busy agent and leaves
\* the cache empty
CacheEmptiedByBusyAgent ==
    /\ pc = "sleep"
    /\ \E e \in Units : e.unit.agent_status = "executing"
    /\ ServiceLives = {"alive"}
    /\ hist.last_tails # EmptyDict
    /\ prev_logs = EmptyDict

====
